---- MODULE Spec2Model ----
(***************************************************************************)
(* Model of module/button.py: Button (a screen region with an expected     *)
(* colour, a click area, a lazily loaded template and a relocation         *)
(* override) and ButtonGrid (a lattice of Buttons).                        *)
(*                                                                         *)
(* Rectangles are 4-tuples <<x1, y1, x2, y2>>, points and vectors are      *)
(* 2-tuples.  Python's None is the empty tuple.  Similarity scores and     *)
(* thresholds are held in hundredths, so 1.0 is 100 and 0.85 is 85.        *)
(*                                                                         *)
(* cv2 and PIL are libraries outside the repository.  A screenshot handed  *)
(* to match is represented by what cv2.matchTemplate makes of it: for each *)
(* template of the button, a correlation surface over screen positions     *)
(* with one peak (where the template fits best, and how well).  The asset  *)
(* store holds every file a Button names; a Button without a file has      *)
(* nothing to open.                                                        *)
(***************************************************************************)
EXTENDS Integers, Sequences, FiniteSets, TLC

VARIABLES
    objs,    \* the Button instances alive, in order of construction
    grids,   \* the ButtonGrid instances alive, in order of construction
    reads,   \* per Button instance: how often its asset file was read
    last     \* the call made last: operation, receiver, arguments, outcome

vars == <<objs, grids, reads, last>>

None == <<>>

---------------------------------------------------------------------------
(* Bounds of the model *)

\* ButtonGrid instances the client keeps alive at most.
MaxGrids == 3
\* Frames of the animated asset spin.gif.
GifFrames == 2
\* Slope of a correlation surface: hundredths lost per pixel off the peak.
Fall == 10

\* The highest score TM_CCOEFF_NORMED gives (1.0), in hundredths.
ScoreMax == 100
\* match's default threshold 0.85, in hundredths.
DefaultThreshold == 85

---------------------------------------------------------------------------
(* Helpers *)

Abs(n) == IF n < 0 THEN -n ELSE n

Max0(n) == IF n < 0 THEN 0 ELSE n

\* t[:2]
Head2(t) == <<t[1], t[2]>>

\* t[2:]
Tail2(t) == <<t[3], t[4]>>

\* numpy's elementwise a + b and a - b on tuples of one length
np_add(a, b) == [i \in 1..Len(a) |-> a[i] + b[i]]

np_subtract(a, b) == [i \in 1..Len(a) |-> a[i] - b[i]]

\* module.utils.area_offset: the rectangle moved by a vector; a 4-vector
\* moves each corner on its own.
area_offset(area, offset) ==
    IF Len(offset) = 2
    THEN <<area[1] + offset[1], area[2] + offset[2],
           area[3] + offset[1], area[4] + offset[2]>>
    ELSE np_add(area, offset)

\* module.utils.get_color: the mean colour of the region of a screenshot.
\* A screenshot handed to load_color is represented by the colour its
\* sampled region averages to.
get_color(image, area) == image.color

---------------------------------------------------------------------------
(* The asset store *)

Files == {"icon.png", "spin.gif"}

\* os.path.splitext(file)[1]
splitext_ext(file) == IF file = "spin.gif" THEN ".gif" ELSE ".png"

\* os.path.splitext(os.path.split(file)[1])[0]
splitext_stem(file) == IF file = "spin.gif" THEN "spin" ELSE "icon"

\* The frames stored in a file.
FrameCount(file) == IF splitext_ext(file) = ".gif" THEN GifFrames ELSE 1

\* Pixel data: frame `frame` of `src` cut to `area`.
Pixels(src, frame, area) == [src |-> src, frame |-> frame, area |-> area]

\* imageio.mimread(file), each frame cropped to area
mimread_crop(file, area) ==
    [k \in 1..FrameCount(file) |-> Pixels(file, k, area)]

\* Image.open(file).crop(area).convert('RGB'): the first frame
open_crop(file, area) == Pixels(file, 1, area)

---------------------------------------------------------------------------
(* Button *)

NoImage == [kind |-> "None", data |-> <<>>]

\* Button.__init__
Button(area, color, button_, file, name) ==
    [area |-> area,
     color |-> color,
     _button |-> button_,
     _button_offset |-> None,
     _match_init |-> FALSE,
     file |-> file,
     image |-> NoImage,
     name |-> IF file # "None" THEN splitext_stem(file) ELSE name,
     is_gif |-> IF file # "None" THEN splitext_ext(file) = ".gif" ELSE FALSE]

\* Button.button: the active click area
button(b) ==
    IF b._button_offset = None THEN b._button ELSE b._button_offset

\* Button.load_color
load_color(b, image) ==
    [b EXCEPT !.color = get_color(image, b.area),
              !.image = [kind |-> "array",
                         data |-> <<Pixels("screen", image.color, b.area)>>],
              !.is_gif = FALSE]

\* A faulty load_offset: it takes over the other Button's click area itself.
load_offset_copy(b, other) == [b EXCEPT !._button_offset = button(other)]

\* Button.load_offset
load_offset(b, other) ==
    LET offset == Head2(np_subtract(button(other), other._button))
    IN [b EXCEPT !._button_offset = area_offset(b._button, offset)]

\* A faulty clear_offset: it forgets nothing.
clear_offset_noop(b) == b

\* Button.clear_offset
clear_offset(b) == [b EXCEPT !._button_offset = None]

\* A faulty ensure_template: it does not look at _match_init.
ensure_template_always(b) ==
    IF b.file = "None"
    THEN [self |-> b, reads |-> 0, raised |-> TRUE]
    ELSE [self |-> [b EXCEPT !.image =
                        IF b.is_gif
                        THEN [kind |-> "list", data |-> mimread_crop(b.file, b.area)]
                        ELSE [kind |-> "array", data |-> <<open_crop(b.file, b.area)>>],
                             !._match_init = TRUE],
          reads |-> 1, raised |-> FALSE]

\* Button.ensure_template: the instance afterwards, the asset reads made,
\* and whether opening the file raised.
ensure_template(b) ==
    IF b._match_init
    THEN [self |-> b, reads |-> 0, raised |-> FALSE]
    ELSE IF b.is_gif
    THEN [self |-> [b EXCEPT !.image = [kind |-> "list",
                                       data |-> mimread_crop(b.file, b.area)],
                             !._match_init = TRUE],
          reads |-> 1, raised |-> FALSE]
    ELSE IF b.file = "None"
    THEN [self |-> b, reads |-> 0, raised |-> TRUE]
    ELSE [self |-> [b EXCEPT !.image = [kind |-> "array",
                                       data |-> <<open_crop(b.file, b.area)>>],
                             !._match_init = TRUE],
          reads |-> 1, raised |-> FALSE]

\* match's offset argument as the array it becomes: an int, a 2-tuple or a
\* 4-tuple.
SearchOffset(offset) ==
    IF offset.type = "tuple"
    THEN IF Len(offset.v) = 2
         THEN <<-offset.v[1], -offset.v[2], offset.v[1], offset.v[2]>>
         ELSE offset.v
    ELSE <<-3, -offset.v[1], 3, offset.v[1]>>

\* cv2.matchTemplate's score of the template placed at p in the window:
\* the surface's peak height less the distance from the peak.
Score(surface, window, p) ==
    Max0(surface.top - Fall * (Abs(window[1] + p[1] - surface.peak[1])
                               + Abs(window[2] + p[2] - surface.peak[2])))

\* cv2.minMaxLoc's scan of the scores, row by row, from place number n:
\* a place takes over only with a strictly higher score.
RECURSIVE minMaxLoc_scan(_, _, _, _, _, _)
minMaxLoc_scan(surface, window, w, h, n, best) ==
    IF n >= (w + 1) * (h + 1)
    THEN best
    ELSE LET p == <<n % (w + 1), n \div (w + 1)>>
             s == Score(surface, window, p)
         IN minMaxLoc_scan(surface, window, w, h, n + 1,
                           IF s > best.similarity
                           THEN [similarity |-> s, point |-> p]
                           ELSE best)

\* cv2.minMaxLoc of cv2.matchTemplate's scores: the highest score and the
\* first place, in row order, that has it.
minMaxLoc(surface, window, area) ==
    LET w == (window[3] - window[1]) - (area[3] - area[1])
        h == (window[4] - window[2]) - (area[4] - area[2])
    IN minMaxLoc_scan(surface, window, w, h, 1,
                      [similarity |-> Score(surface, window, <<0, 0>>),
                       point |-> <<0, 0>>])

\* A faulty loop over the frames: it does not stop at the frame that matches.
RECURSIVE match_gif_no_exit(_, _, _, _, _)
match_gif_no_exit(b, image, offset, threshold, k) ==
    IF k > Len(b.image.data)
    THEN [self |-> b, ret |-> FALSE]
    ELSE LET mm == minMaxLoc(image[k], np_add(offset, b.area), b.area)
             b1 == [b EXCEPT !._button_offset =
                        area_offset(b._button, np_add(Head2(offset), mm.point))]
             rest == match_gif_no_exit(b1, image, offset, threshold, k + 1)
         IN [self |-> rest.self, ret |-> mm.similarity > threshold \/ rest.ret]

\* The loop of match over the frames of an animated template, from frame k.
RECURSIVE match_gif(_, _, _, _, _)
match_gif(b, image, offset, threshold, k) ==
    IF k > Len(b.image.data)
    THEN [self |-> b, ret |-> FALSE]
    ELSE LET mm == minMaxLoc(image[k], np_add(offset, b.area), b.area)
             b1 == [b EXCEPT !._button_offset =
                        area_offset(b._button, np_add(Head2(offset), mm.point))]
         IN IF mm.similarity > threshold
            THEN [self |-> b1, ret |-> TRUE]
            ELSE match_gif(b1, image, offset, threshold, k + 1)

\* A faulty match: it records the place found only when it matches.
match_loaded_on_success(b, image, offset, threshold) ==
    IF b.is_gif
    THEN match_gif(b, image, offset, threshold, 1)
    ELSE LET mm == minMaxLoc(image[1], np_add(offset, b.area), b.area)
         IN [self |-> IF mm.similarity > threshold
                      THEN [b EXCEPT !._button_offset =
                               area_offset(b._button, np_add(Head2(offset), mm.point))]
                      ELSE b,
             ret |-> mm.similarity > threshold]

\* A faulty match: a score equal to the threshold matches.
match_loaded_ge(b, image, offset, threshold) ==
    IF b.is_gif
    THEN match_gif(b, image, offset, threshold, 1)
    ELSE LET mm == minMaxLoc(image[1], np_add(offset, b.area), b.area)
         IN [self |-> [b EXCEPT !._button_offset =
                          area_offset(b._button, np_add(Head2(offset), mm.point))],
             ret |-> mm.similarity >= threshold]

\* A faulty match: it moves the active click area, not the static one.
match_loaded_accumulate(b, image, offset, threshold) ==
    IF b.is_gif
    THEN match_gif(b, image, offset, threshold, 1)
    ELSE LET mm == minMaxLoc(image[1], np_add(offset, b.area), b.area)
         IN [self |-> [b EXCEPT !._button_offset =
                          area_offset(button(b), np_add(Head2(offset), mm.point))],
             ret |-> mm.similarity > threshold]

\* Button.match once the template is in memory; offset is the array.
match_loaded(b, image, offset, threshold) ==
    IF b.is_gif
    THEN match_gif(b, image, offset, threshold, 1)
    ELSE LET mm == minMaxLoc(image[1], np_add(offset, b.area), b.area)
         IN [self |-> [b EXCEPT !._button_offset =
                          area_offset(b._button, np_add(Head2(offset), mm.point))],
             ret |-> mm.similarity > threshold]

\* Button.match: the instance afterwards, the value returned, the asset
\* reads made and whether it raised.
match(b, image, offset, threshold) ==
    LET e == ensure_template(b)
        m == match_loaded(e.self, image, SearchOffset(offset), threshold)
    IN IF e.raised
       THEN [self |-> e.self, ret |-> FALSE, reads |-> e.reads, raised |-> TRUE]
       ELSE [self |-> m.self, ret |-> m.ret, reads |-> e.reads, raised |-> FALSE]

\* A screenshot handed to load_color, crop or move; NoShot is None.
NoShot == [color |-> None]

\* A faulty crop: it calibrates the receiver, not the Button it returns.
Button_crop_calibrates_self(b, area, image, name) ==
    LET new_area == area_offset(area, Head2(b.area))
        new_button == area_offset(area, Head2(button(b)))
        made == Button(new_area, b.color, new_button, b.file,
                       IF name = "None" THEN b.name ELSE name)
    IN [self |-> IF image # NoShot THEN load_color(b, image) ELSE b,
        ret |-> made]

\* Button.crop: the receiver afterwards and the Button returned.
Button_crop(b, area, image, name) ==
    LET new_area == area_offset(area, Head2(b.area))
        new_button == area_offset(area, Head2(button(b)))
        made == Button(new_area, b.color, new_button, b.file,
                       IF name = "None" THEN b.name ELSE name)
    IN [self |-> b,
        ret |-> IF image # NoShot THEN load_color(made, image) ELSE made]

\* Button.move: the receiver afterwards and the Button returned.
Button_move(b, vector, image, name) ==
    LET new_area == area_offset(b.area, vector)
        new_button == area_offset(button(b), vector)
        made == Button(new_area, b.color, new_button, b.file,
                       IF name = "None" THEN b.name ELSE name)
    IN [self |-> b,
        ret |-> IF image # NoShot THEN load_color(made, image) ELSE made]

---------------------------------------------------------------------------
(* ButtonGrid.  origin and delta may be fractional: both are held in half  *)
(* pixels (twice the value), so that np.round has something to round.      *)
(* button_shape and grid_shape are whole numbers.                          *)

\* np.round(h / 2).astype(int) of a number of half pixels: to the nearest
\* integer, a half to the even neighbour.
np_round(h) ==
    IF h % 2 = 0
    THEN h \div 2
    ELSE LET floor == (h - 1) \div 2
         IN IF floor % 2 = 0 THEN floor ELSE floor + 1

NotCached == [cached |-> FALSE, value |-> <<>>]

\* ButtonGrid.__init__
ButtonGrid(origin, delta, button_shape, grid_shape, name) ==
    [origin |-> origin,
     delta |-> delta,
     button_shape |-> button_shape,
     grid_shape |-> grid_shape,
     _name |-> name,
     buttons |-> NotCached]

\* ButtonGrid.__getitem__
__getitem__(g, item) ==
    LET base == <<np_round(item[1] * g.delta[1] + g.origin[1]),
                  np_round(item[2] * g.delta[2] + g.origin[2])>>
        area == base \o np_add(base, g.button_shape)
    IN Button(area, <<>>, area, "None",
              g._name \o "_" \o ToString(item[1]) \o "_" \o ToString(item[2]))

\* The inner loop of generate: the cells of row y.
generate_row(g, y) ==
    [i \in 1..g.grid_shape[1] |-> <<i - 1, y, __getitem__(g, <<i - 1, y>>)>>]

\* The outer loop of generate, from row y.
RECURSIVE generate_from(_, _)
generate_from(g, y) ==
    IF y >= g.grid_shape[2]
    THEN <<>>
    ELSE generate_row(g, y) \o generate_from(g, y + 1)

\* A faulty generate: columns in the outer loop, rows in the inner one.
generate_by_column(g) ==
    LET cols == g.grid_shape[1]
        rows == g.grid_shape[2]
    IN [k \in 1..(cols * rows) |->
           LET x == (k - 1) \div rows
               y == (k - 1) % rows
           IN <<x, y, __getitem__(g, <<x, y>>)>>]

\* ButtonGrid.generate, run to its end: the triples (x, y, Button) yielded.
generate(g) == generate_from(g, 0)

\* The body of ButtonGrid.buttons
buttons(g) ==
    LET cells == generate(g)
    IN [k \in 1..Len(cells) |-> cells[k][3]]

\* cached_property: g.buttons.  The first access runs the body and stores
\* its value in the instance; later ones find the stored value.
get_buttons(g) ==
    IF g.buttons.cached
    THEN [self |-> g, ret |-> g.buttons.value]
    ELSE LET value == buttons(g)
         IN [self |-> [g EXCEPT !.buttons = [cached |-> TRUE, value |-> value]],
             ret |-> value]

\* ButtonGrid.crop: the receiver afterwards and the grid returned.
ButtonGrid_crop(g, area, name) ==
    LET origin == <<g.origin[1] + 2 * area[1], g.origin[2] + 2 * area[2]>>
        button_shape == np_subtract(Tail2(area), Head2(area))
    IN [self |-> g,
        ret |-> ButtonGrid(origin, g.delta, button_shape, g.grid_shape,
                           IF name = "None" THEN g._name ELSE name)]

\* ButtonGrid.move: the receiver afterwards and the grid returned.
ButtonGrid_move(g, vector, name) ==
    LET origin == <<g.origin[1] + 2 * vector[1], g.origin[2] + 2 * vector[2]>>
    IN [self |-> g,
        ret |-> ButtonGrid(origin, g.delta, g.button_shape, g.grid_shape,
                           IF name = "None" THEN g._name ELSE name)]

---------------------------------------------------------------------------
(* What the client passes in *)

\* match's offset argument: an int, a 2-tuple, a 4-tuple.
Offsets ==
    {[type |-> "int", v |-> <<1>>],
     [type |-> "tuple", v |-> <<1, 0>>],
     [type |-> "tuple", v |-> <<0, -1, 1, 0>>]}

NoOffset == [type |-> "None", v |-> <<>>]

Thresholds == {DefaultThreshold, ScoreMax}

\* Where a template fits the screen best, from the corner of the Button's
\* search area, and how well: poorly or exactly.
PeakShifts == {<<0, 0>>, <<1, -1>>}

Tops == {ScoreMax \div 2, ScoreMax}

Surfaces(b) ==
    {[peak |-> np_add(Head2(b.area), d), top |-> t] : d \in PeakShifts, t \in Tops}

\* The screenshots match is tried on: a surface per template of the Button.
Screens(b) ==
    LET e == ensure_template(b)
        n == IF e.raised THEN 1 ELSE Len(e.self.image.data)
    IN [1..n -> Surfaces(b)]

\* Screenshots to calibrate from, and no screenshot.
Shots == {[color |-> <<40, 40, 40>>]}

CropAreas == {<<1, 0, 3, 2>>}

Vectors == {<<5, 0>>, <<-5, 3>>}

Items == {<<0, 0>>, <<1, 1>>, <<2, 1>>, <<3, 0>>, <<0, -1>>}

---------------------------------------------------------------------------
(* The calls *)

Call(op, self, arg, ret) ==
    [op |-> op, self |-> self, arg |-> arg, ret |-> ret, made |-> <<>>,
     item |-> None, image |-> <<>>, offset |-> NoOffset, threshold |-> 0]

EnsureTemplate(i) ==
    \E e \in {ensure_template(objs[i])} :
       /\ objs' = [objs EXCEPT ![i] = e.self]
       /\ reads' = [reads EXCEPT ![i] = @ + e.reads]
       /\ last' = Call("ensure_template", i, 0, IF e.raised THEN "raise" ELSE "None")
       /\ UNCHANGED grids

Match(i) ==
    \E image \in Screens(objs[i]), offset \in Offsets, threshold \in Thresholds :
        \E m \in {match(objs[i], image, offset, threshold)} :
           /\ objs' = [objs EXCEPT ![i] = m.self]
           /\ reads' = [reads EXCEPT ![i] = @ + m.reads]
           /\ last' = [Call("match", i, 0,
                            IF m.raised THEN "raise"
                            ELSE IF m.ret THEN "True" ELSE "False")
                       EXCEPT !.image = image, !.offset = offset,
                              !.threshold = threshold]
           /\ UNCHANGED grids

LoadColor(i) ==
    \E image \in Shots :
        /\ objs' = [objs EXCEPT ![i] = load_color(@, image)]
        /\ last' = Call("load_color", i, 0, "color")
        /\ UNCHANGED <<grids, reads>>

LoadOffset(i, j) ==
    /\ objs' = [objs EXCEPT ![i] = load_offset(@, objs[j])]
    /\ last' = Call("load_offset", i, j, "None")
    /\ UNCHANGED <<grids, reads>>

ClearOffset(i) ==
    /\ objs' = [objs EXCEPT ![i] = clear_offset(@)]
    /\ last' = Call("clear_offset", i, 0, "None")
    /\ UNCHANGED <<grids, reads>>

\* A call on Button i that returns a new Button: last.made holds it.
Returned(op, i, r) ==
    /\ objs' = [objs EXCEPT ![i] = r.self]
    /\ last' = [Call(op, i, 0, "Button") EXCEPT !.made = <<r.ret>>]
    /\ UNCHANGED <<grids, reads>>

Crop(i) ==
    \E area \in CropAreas, image \in Shots \cup {NoShot} :
        Returned("crop", i, Button_crop(objs[i], area, image, "None"))

Move(i) ==
    \E vector \in Vectors, image \in Shots \cup {NoShot} :
        Returned("move", i, Button_move(objs[i], vector, image, "None"))

GetItem(g) ==
    \E item \in Items :
        /\ last' = [Call("__getitem__", g, 0, "Button")
                    EXCEPT !.made = <<__getitem__(grids[g], item)>>,
                           !.item = item]
        /\ UNCHANGED <<objs, grids, reads>>

Generate(g) ==
    /\ last' = [Call("generate", g, 0, "cells") EXCEPT !.made = generate(grids[g])]
    /\ UNCHANGED <<objs, grids, reads>>

GetButtons(g) ==
    \E r \in {get_buttons(grids[g])} :
       /\ grids' = [grids EXCEPT ![g] = r.self]
       /\ last' = [Call("buttons", g, 0, "list") EXCEPT !.made = r.ret]
       /\ UNCHANGED <<objs, reads>>

\* A call on grid g that returns a new ButtonGrid: the client keeps it.
ReturnedGrid(op, g, r) ==
    /\ grids' = Append([grids EXCEPT ![g] = r.self], r.ret)
    /\ last' = Call(op, g, Len(grids) + 1, "ButtonGrid")
    /\ UNCHANGED <<objs, reads>>

GridCrop(g) ==
    /\ Len(grids) < MaxGrids
    /\ \E area \in CropAreas :
           ReturnedGrid("grid_crop", g, ButtonGrid_crop(grids[g], area, "None"))

GridMove(g) ==
    /\ Len(grids) < MaxGrids
    /\ \E vector \in Vectors :
           ReturnedGrid("grid_move", g, ButtonGrid_move(grids[g], vector, "None"))

-----
(* The instances the client starts from *)

ICON == Button(<<10, 10, 14, 12>>, <<231, 181, 90>>, <<10, 10, 14, 12>>,
               "icon.png", "None")

SPIN == Button(<<20, 10, 24, 12>>, <<231, 181, 90>>, <<21, 11, 23, 12>>,
               "spin.gif", "None")

\* A Button without an asset: it can be checked by colour only.
CHECK == Button(<<30, 20, 34, 22>>, <<0, 0, 0>>, <<31, 20, 33, 22>>, "None", "CHECK")

\* origin (0, 0), delta (100, 50)
CARD_GRID == ButtonGrid(<<0, 0>>, <<200, 100>>, <<80, 40>>, <<3, 2>>, "CARD_GRID")

\* origin (5, 5.5), delta (2.5, 3)
SLOT_GRID == ButtonGrid(<<10, 11>>, <<5, 6>>, <<2, 2>>, <<2, 2>>, "SLOT_GRID")

Init ==
    /\ \/ objs = <<ICON, CHECK>> /\ grids = <<>>
       \/ objs = <<SPIN>> /\ grids = <<>>
       \/ objs = <<>> /\ grids = <<CARD_GRID, SLOT_GRID>>
    /\ reads = [i \in 1..Len(objs) |-> 0]
    /\ last = Call("None", 0, 0, "None")

Next ==
    \/ \E i \in 1..Len(objs) : EnsureTemplate(i)
    \/ \E i \in 1..Len(objs) : Match(i)
    \/ \E i \in 1..Len(objs) : LoadColor(i)
    \/ \E i \in 1..Len(objs), j \in 1..Len(objs) : LoadOffset(i, j)
    \/ \E i \in 1..Len(objs) : ClearOffset(i)
    \/ \E i \in 1..Len(objs) : Crop(i)
    \/ \E i \in 1..Len(objs) : Move(i)
    \/ \E g \in 1..Len(grids) : GetItem(g)
    \/ \E g \in 1..Len(grids) : Generate(g)
    \/ \E g \in 1..Len(grids) : GetButtons(g)
    \/ \E g \in 1..Len(grids) : GridCrop(g)
    \/ \E g \in 1..Len(grids) : GridMove(g)

Spec == Init /\ [][Next]_vars

---------------------------------------------------------------------------
(* Properties *)

\* The last call was a match on a Button that did not raise.
Matched == last.op = "match" /\ last.ret # "raise"

\* What cv2 finds for frame k of the last match's screenshot.
Found(k) ==
    LET b == objs[last.self]
    IN minMaxLoc(last.image[k], np_add(SearchOffset(last.offset), b.area), b.area)

\* The click area the last match computes from what cv2 found for frame k.
Relocated(k) ==
    area_offset(objs[last.self]._button,
                np_add(Head2(SearchOffset(last.offset)), Found(k).point))

\* The frame at which the last match on an animated template stopped: the
\* first one scoring above the threshold, or the last one.
FirstClearing ==
    LET clearing == {k \in 1..Len(last.image) : Found(k).similarity > last.threshold}
    IN IF clearing = {} THEN 0
       ELSE CHOOSE k \in clearing : \A j \in clearing : k <= j

StoppedAt == IF FirstClearing = 0 THEN Len(last.image) ELSE FirstClearing

\* C1: a match on a static template sets clickOffset to the static click
\* area shifted by offset[:2] + the best-match point whether it returns true
\* or false, and returns exactly similarity > threshold.
C1_StaticMatchRecordsOffset ==
    (Matched /\ ~objs[last.self].is_gif) =>
        /\ objs[last.self]._button_offset = Relocated(1)
        /\ objs[last.self]._button_offset # None
        /\ (last.ret = "True") <=> (Found(1).similarity > last.threshold)

\* C1: a failed match on a static template has left a relocation that is
\* not the static click area.
C1_Witness ==
    /\ Matched /\ ~objs[last.self].is_gif /\ last.ret = "False"
    /\ objs[last.self]._button_offset # None
    /\ objs[last.self]._button_offset # objs[last.self]._button

\* C2 as amended: a match on an animated template returns true at the first
\* frame scoring above the threshold and false after all frames otherwise,
\* and clickOffset is computed from the frame at which it stopped.
C2_AnimatedMatchLastExamined ==
    (Matched /\ objs[last.self].is_gif) =>
        /\ Len(last.image) = Len(objs[last.self].image.data)
        /\ (last.ret = "True") <=> (FirstClearing # 0)
        /\ objs[last.self]._button_offset = Relocated(StoppedAt)

\* C2: a match on an animated template returned false after a first frame
\* that scored higher than the second, in another place.
C2_Witness ==
    /\ Matched /\ objs[last.self].is_gif /\ last.ret = "False"
    /\ Len(last.image) >= 2
    /\ Found(1).similarity > Found(2).similarity
    /\ Relocated(1) # Relocated(2)

\* C2 as stated: clickOffset is computed from the best-scoring frame among
\* the frames examined.
C2_AnimatedMatchGlobalBest ==
    (Matched /\ objs[last.self].is_gif) =>
        /\ (last.ret = "True") <=> (FirstClearing # 0)
        /\ \E k \in 1..StoppedAt :
               /\ \A j \in 1..StoppedAt : Found(j).similarity <= Found(k).similarity
               /\ objs[last.self]._button_offset = Relocated(k)

\* The last match was on a static template, against a screenshot holding
\* the exact reference image at a place inside the search window.
ExactInWindow ==
    /\ Matched /\ ~objs[last.self].is_gif
    /\ last.image[1].top = ScoreMax
    /\ LET d == np_subtract(last.image[1].peak, Head2(objs[last.self].area))
           off == SearchOffset(last.offset)
       IN /\ off[1] <= d[1] /\ d[1] <= off[3]
          /\ off[2] <= d[2] /\ d[2] <= off[4]

\* C3 as amended: with the exact reference image in the window, match
\* returns true for every threshold below 1.0 and false at 1.0, and
\* clickOffset is the static click area shifted by exactly that place.
C3_ExactMatchBelowOne ==
    ExactInWindow =>
        /\ (last.ret = "True") <=> (last.threshold < ScoreMax)
        /\ objs[last.self]._button_offset =
               area_offset(objs[last.self]._button,
                           np_subtract(last.image[1].peak, Head2(objs[last.self].area)))

\* C3: an exact image off the corner of the search area was matched.
C3_Witness ==
    /\ ExactInWindow /\ last.ret = "True"
    /\ last.image[1].peak # Head2(objs[last.self].area)

\* C3 as stated: with the exact reference image in the window, match
\* returns true for every threshold up to and including 1.0.
C3_ExactMatchUpToOne ==
    (ExactInWindow /\ last.threshold <= ScoreMax) =>
        /\ last.ret = "True"
        /\ objs[last.self]._button_offset =
               area_offset(objs[last.self]._button,
                           np_subtract(last.image[1].peak, Head2(objs[last.self].area)))

\* The step is a call of one of the operations on Button i.
CallOn(i, ops) == last'.op \in ops /\ last'.self = i

\* C4 as amended: the asset of a Button is read at most once; the first
\* ensure_template or match that does not raise reads it and sets the
\* flag; afterwards no call reads it or resets the flag, and ensure_template
\* and match leave the loaded template as it is.
C4_TemplateReadOnce ==
    [][\A i \in 1..Len(objs) :
          /\ reads'[i] <= 1
          /\ (~objs[i]._match_init /\ CallOn(i, {"ensure_template", "match"})
                  /\ last'.ret # "raise")
                 => reads'[i] = reads[i] + 1 /\ objs'[i]._match_init
          /\ objs[i]._match_init
                 => reads'[i] = reads[i] /\ objs'[i]._match_init
          /\ (objs[i]._match_init /\ CallOn(i, {"ensure_template", "match"}))
                 => objs'[i].image = objs[i].image]_vars

\* C4: a loaded Button was calibrated and then matched again, with one read.
C4_Witness ==
    /\ Matched
    /\ objs[last.self].image.kind = "array"
    /\ objs[last.self].image.data[1].src = "screen"
    /\ reads[last.self] = 1

\* C4 as stated: once the template is loaded, every later ensure_template,
\* match and load_color reads nothing and leaves the template as it is.
C4_TemplateNeverChanges ==
    [][\A i \in 1..Len(objs) :
          /\ reads'[i] <= 1
          /\ (objs[i]._match_init
                  /\ CallOn(i, {"ensure_template", "match", "load_color"}))
                 => reads'[i] = reads[i] /\ objs'[i].image = objs[i].image]_vars

\* The index is inside the grid's shape.
InGrid(g, item) ==
    /\ 0 <= item[1] /\ item[1] < g.grid_shape[1]
    /\ 0 <= item[2] /\ item[2] < g.grid_shape[2]

\* C5: asking a grid for a cell outside its shape raises.
C5_OutOfRangeRaises ==
    (last.op = "__getitem__" /\ ~InGrid(grids[last.self], last.item))
        => last.ret = "raise"

\* origin and delta of the grid are whole numbers.
Integral(g) == \A i \in 1..2 : g.origin[i] % 2 = 0 /\ g.delta[i] % 2 = 0

\* The rectangle of cell (column, row) of a grid with whole origin and delta.
CellRect(g, column, row) ==
    LET x == (g.origin[1] \div 2) + (g.delta[1] \div 2) * column
        y == (g.origin[2] \div 2) + (g.delta[2] \div 2) * row
    IN <<x, y, x + g.button_shape[1], y + g.button_shape[2]>>

\* The cells are those of the grid, row by row.
RowMajor(g, cells) ==
    /\ Len(cells) = g.grid_shape[1] * g.grid_shape[2]
    /\ \A k \in 1..Len(cells) :
           LET column == (k - 1) % g.grid_shape[1]
               row == (k - 1) \div g.grid_shape[1]
           IN /\ cells[k].area = CellRect(g, column, row)
              /\ button(cells[k]) = CellRect(g, column, row)

\* C6: the cell list of a grid with whole origin and delta has cols * rows
\* cells in row-major order, each at origin + delta * (column, row) with the
\* cell shape; generate yields the same cells, with their indices, each
\* time; cell (2, 1) of the grid (0,0), (100,50), (80,40), (3,2) is
\* (200, 50, 280, 90).
C6_CellsRowMajor ==
    /\ \A g \in 1..Len(grids) :
           (Integral(grids[g]) /\ grids[g].buttons.cached)
               => RowMajor(grids[g], grids[g].buttons.value)
    /\ (last.op = "buttons" /\ Integral(grids[last.self]))
           => /\ last.made = grids[last.self].buttons.value
              /\ RowMajor(grids[last.self], last.made)
    /\ (last.op = "generate" /\ Integral(grids[last.self]))
           => /\ RowMajor(grids[last.self], [k \in 1..Len(last.made) |-> last.made[k][3]])
              /\ \A k \in 1..Len(last.made) :
                     /\ last.made[k][1] = (k - 1) % grids[last.self].grid_shape[1]
                     /\ last.made[k][2] = (k - 1) \div grids[last.self].grid_shape[1]
    /\ (last.op \in {"buttons", "generate"}
            /\ [grids[last.self] EXCEPT !.buttons = NotCached] = CARD_GRID)
           => LET cell == IF last.op = "buttons" THEN last.made[6] ELSE last.made[6][3]
              IN /\ cell.area = <<200, 50, 280, 90>>
                 /\ button(cell) = <<200, 50, 280, 90>>

\* C6: generate was run on the 3 by 2 grid after its cell list was cached.
C6_Witness ==
    /\ last.op = "generate"
    /\ [grids[last.self] EXCEPT !.buttons = NotCached] = CARD_GRID
    /\ grids[last.self].buttons.cached
    /\ Len(last.made) = 6
    /\ last.made[6][3].area = <<200, 50, 280, 90>>

\* C7: the active click area is clickOffset when that is set and the static
\* click area otherwise; no call changes the static click area; right
\* after clear_offset the active click area is the static one.
C7_ActiveClickArea ==
    [][\A i \in 1..Len(objs) :
          /\ button(objs'[i]) = IF objs'[i]._button_offset # None
                                THEN objs'[i]._button_offset
                                ELSE objs'[i]._button
          /\ objs'[i]._button = objs[i]._button
          /\ CallOn(i, {"clear_offset"}) => button(objs'[i]) = objs'[i]._button]_vars

\* C7: clear_offset was called on a Button whose template had been loaded
\* and whose neighbour still carries the relocation it took from it.
C7_Witness ==
    /\ last.op = "clear_offset"
    /\ objs[last.self]._match_init
    /\ button(objs[last.self]) = objs[last.self]._button
    /\ \E j \in 1..Len(objs) :
           j # last.self /\ button(objs[j]) # objs[j]._button

\* C8: crop and move of a Button or of a grid return a new instance and
\* change no field of any instance there was; the new Button has no
\* clickOffset and its template is not loaded.
C8_TransformsLeaveReceiver ==
    [][/\ last'.op \in {"crop", "move"}
           => /\ objs' = objs /\ grids' = grids /\ reads' = reads
              /\ Len(last'.made) = 1
              /\ last'.made[1]._button_offset = None
              /\ ~last'.made[1]._match_init
       /\ last'.op \in {"grid_crop", "grid_move"}
           => /\ objs' = objs
              /\ Len(grids') = Len(grids) + 1
              /\ last'.arg = Len(grids')
              /\ \A g \in 1..Len(grids) : grids'[g] = grids[g]]_vars

\* C8: a relocated Button with its template loaded was cropped with a
\* calibration screenshot.
C8_Witness ==
    /\ last.op = "crop"
    /\ objs[last.self]._match_init
    /\ objs[last.self]._button_offset # None
    /\ objs[last.self].image.data[1].src # "screen"
    /\ last.made[1].image.kind = "array"
    /\ last.made[1].color # objs[last.self].color

\* A rectangle shifted by a vector: both corners move by it.
Shifted(rect, v) == <<rect[1] + v[1], rect[2] + v[2], rect[3] + v[1], rect[4] + v[2]>>

\* The shift of a Button's active click area from its static one.
Shift(b) == np_subtract(button(b), b._button)

\* C9: after a.load_offset(b) the active click area of a is its static one
\* with both corners shifted by b's shift; with b not relocated that is the
\* static click area; b, when it is another Button, is as it was.
C9_LoadOffsetCopiesShift ==
    [][last'.op = "load_offset" =>
          LET a == objs'[last'.self]
              b == objs[last'.arg]
          IN /\ button(a) = Shifted(a._button, Head2(Shift(b)))
             /\ Shift(a) = Head2(Shift(b)) \o Head2(Shift(b))
             /\ b._button_offset = None => button(a) = a._button
             /\ last'.arg # last'.self => objs'[last'.arg] = b]_vars

\* C9: a Button took a shift that is not zero from another Button.
C9_Witness ==
    /\ last.op = "load_offset"
    /\ last.arg # last.self
    /\ Head2(Shift(objs[last.arg])) # <<0, 0>>
    /\ Shift(objs[last.self]) = Head2(Shift(objs[last.arg])) \o Head2(Shift(objs[last.arg]))

\* C10: the clickOffset a match leaves does not depend on the relocation
\* there was before it, and a second match on the same screenshot with the
\* same offset and threshold changes nothing and returns the same.
C10_MatchDoesNotAccumulate ==
    Matched =>
        LET b == objs[last.self]
            again == match(b, last.image, last.offset, last.threshold)
            fresh == match(clear_offset(b), last.image, last.offset, last.threshold)
            loaded == match(load_offset(b, b), last.image, last.offset, last.threshold)
        IN /\ again.self = b
           /\ again.ret = (last.ret = "True")
           /\ again.reads = 0
           /\ fresh.self = b
           /\ loaded.self = b
           /\ \A o \in Offsets :
                  match(match(b, last.image, o, last.threshold).self,
                        last.image, last.offset, last.threshold).self = b

\* C10: a match has left a relocation that is not the static click area.
C10_Witness ==
    /\ Matched
    /\ last.offset.type = "int"
    /\ objs[last.self]._button_offset # None
    /\ Shift(objs[last.self]) # <<0, 0, 0, 0>>

====
